---- MODULE Spec2Model ----
(***************************************************************************)
(* A model of nougat/utils/dataset.py.                                     *)
(*                                                                         *)
(*   SpecCollate  LazyDataset.ignore_none_collate, a pure function of the  *)
(*                batch: Init draws the batch, Collate applies it.         *)
(*   SpecLazy     one LazyDataset object under a sequence of __getitem__   *)
(*                calls.                                                   *)
(*   SpecStore    one SciPDFDataset object under a sequence of             *)
(*                __getitem__ calls.                                       *)
(*                                                                         *)
(* Python values are modelled as follows.  A tensor is the sequence of its *)
(* pixel values; all tensors of a batch have the shape `prepare` gives     *)
(* them, so one pixel stands for the whole tensor.  None, where a tensor   *)
(* is expected, is the empty sequence.  A raised exception is a result     *)
(* whose kind is "raise" and whose exc names the exception class.          *)
(***************************************************************************)
EXTENDS Integers, Sequences, FiniteSets, TLC

VARIABLES
    \* ---- LazyDataset.ignore_none_collate
    batch,        \* the argument: [none |-> is it None, items |-> the list]
    collated,     \* what the call returned or raised
    cpc,          \* "ready" before the call, "done" after it
    \* ---- LazyDataset
    pdf,          \* the document: its pages, each "ok" or "bad" (undecodable)
    size,         \* self.size
    dataset,      \* self.dataset: [none |-> BOOLEAN, img_list |-> pages]
    rasterized,   \* how many times self.init_fn() has been invoked
    lz_log,       \* the __getitem__ calls so far: <<[i, ret]>>
    \* ---- SciPDFDataset
    lines,        \* the lines of the backing record file
    seek_map,     \* self.seek_map
    dataset_length, \* self.dataset_length, what __len__ returns
    dataset_file, \* self.dataset_file: [none |-> BOOLEAN, fd |-> the open()
                  \* call that made the handle, pos |-> its offset]
    opened,       \* how many times path_to_index.open() has been invoked
    sd_log,       \* the __getitem__ calls so far: <<[index, line, ret]>>,
                  \* line the number of the line read, -1 when none was
    \* ---- NougatDataset over CustomDataset
    files,        \* CustomDataset.img_list, each name with the state of the
                  \* image file and the sentence file it leads to
    split,        \* self.split
    environ,      \* os.environ at construction: [set, value] of NOUGAT_PERTURB
    perturb,      \* self.perturb
    vocab,        \* len(self.nougat_model.decoder.tokenizer)
    ng_length,    \* NougatDataset.dataset_length
    stack,        \* the __getitem__ frames the interpreter can still enter
    ng_pc,        \* "idle", "retry" (a frame is about to resample), "done"
    ng_first,     \* the idx of the outer call
    ng_idx,       \* the idx of the frame entered last
    ng_retries,   \* the recursive calls made
    ng_ret        \* what the outer call returned or raised

collate_vars == <<batch, collated, cpc>>
lazy_vars == <<pdf, size, dataset, rasterized, lz_log>>
store_vars == <<lines, seek_map, dataset_length, dataset_file, opened, sd_log>>
nougat_vars ==
    <<files, split, environ, perturb, vocab, ng_length, stack, ng_pc, ng_first,
      ng_idx, ng_retries, ng_ret>>
vars == <<collate_vars, lazy_vars, store_vars, nougat_vars>>

\* ------------------------------------------------------------------ bounds

\* The longest batch handed to ignore_none_collate.
MaxBatch == 4
\* The number of distinct page tensors.
NumImages == 2
\* The longest document, in pages.
MaxPages == 3
\* The number of LazyDataset.__getitem__ calls on one object.
MaxGets == 3
\* The longest record file, in lines.
MaxLines == 2
\* The number of SciPDFDataset.__getitem__ calls on one object.
MaxStoreGets == 3
\* The longest image list of a CustomDataset.
MaxRecords == 2
\* max_length, the fixed length of the token sequences.
MaxLength == 4
\* The most frames of NougatDataset.__getitem__ the interpreter can enter
\* before it raises RecursionError: sys.getrecursionlimit() (1000 unless
\* changed) less the depth of the caller, scaled down.
MaxStack == 2
\* The most rounds of the perturbation loop that are followed.
MaxRounds == 2

\* ------------------------------------------------------------ Python values

\* None where a tensor is expected.
None == <<>>

\* The tensors `prepare` returns: one pixel, never all-zero here.
Tensors == {<<p>> : p \in 1..NumImages}

\* The names an item carries: "" on every page but a document's last.
Names == {"", "doc1", "doc2"}

\* A batch item (image-or-None, name), as LazyDataset.__getitem__ returns it.
Items == [image : Tensors \cup {None}, name : Names]

\* x[0] * 0 for a tensor x[0]: every pixel times zero, the shape kept.
Mul0(t) == [k \in DOMAIN t |-> t[k] * 0]

\* The sequences over S of length 0..n.
SeqUpTo(S, n) == UNION {[1..k -> S] : k \in 0..n}

\* ----------------------------------------- LazyDataset.ignore_none_collate

\* The results of a call.
NoneNone == [kind |-> "none_none", exc |-> "", images |-> <<>>, names |-> <<>>]
Raised(e) == [kind |-> "raise", exc |-> e, images |-> <<>>, names |-> <<>>]

\* torch's default_collate on a non-empty list of (tensor, str) pairs:
\* the list transposed, the tensors stacked and the names listed.
default_collate(b) ==
    [kind |-> "batch", exc |-> "",
     images |-> [k \in 1..Len(b) |-> b[k].image],
     names |-> [k \in 1..Len(b) |-> b[k].name]]

\* One iteration of the for loop, on the item at Python index i (b[i + 1]);
\* st is [exc |-> "" or the exception raised so far, out |-> _batch].
CollateBody(st, b, i) ==
    LET x == b[i + 1] IN
    IF st.exc # "" THEN st
    ELSE IF x.image # None THEN [st EXCEPT !.out = Append(st.out, x)]
    ELSE IF x.name # "" THEN
        IF i > 0 THEN
            \* _batch[-1] of an empty list raises IndexError
            IF Len(st.out) = 0 THEN [st EXCEPT !.exc = "IndexError"]
            ELSE [st EXCEPT !.out[Len(st.out)] =
                      [image |-> st.out[Len(st.out)].image, name |-> x.name]]
        ELSE IF Len(b) > 1 THEN
            \* batch[1][0] * 0 with batch[1][0] None raises TypeError
            IF b[2].image = None THEN [st EXCEPT !.exc = "TypeError"]
            ELSE [st EXCEPT !.out =
                      Append(st.out, [image |-> Mul0(b[2].image), name |-> x.name])]
        ELSE st
    ELSE st

\* The loop after its first n iterations.
RECURSIVE CollateLoop(_, _)
CollateLoop(b, n) ==
    IF n = 0 THEN [exc |-> "", out |-> <<>>]
    ELSE CollateBody(CollateLoop(b, n - 1), b, n - 1)

\* LazyDataset.ignore_none_collate(batch).  IndexError and TypeError are not
\* AttributeError: the except clause lets them through.
ignore_none_collate(arg) ==
    IF arg.none THEN NoneNone
    ELSE LET st == CollateLoop(arg.items, Len(arg.items)) IN
         IF st.exc # "" THEN Raised(st.exc)
         ELSE IF Len(st.out) = 0 THEN NoneNone
         ELSE default_collate(st.out)

\* The idle values of the collate variables in the other specifications.
CollateIdle ==
    /\ batch = [none |-> TRUE, items |-> <<>>]
    /\ collated = NoneNone
    /\ cpc = "idle"

CollateInit ==
    /\ batch \in [none : {FALSE}, items : SeqUpTo(Items, MaxBatch)]
                 \cup {[none |-> TRUE, items |-> <<>>]}
    /\ collated = NoneNone
    /\ cpc = "ready"

\* The call.
Collate ==
    /\ cpc = "ready"
    /\ collated' = ignore_none_collate(batch)
    /\ cpc' = "done"
    /\ UNCHANGED batch

\* ------------------------------------------------------------ ImageDataset

\* ImageDataset.__getitem__(idx) over img_list: the page opened and prepared,
\* or None when anything raises (an index out of the list, an undecodable
\* page): the except clause logs and falls off the end.  A Python list takes
\* idx in -len..len-1.  The tensor of page p is <<p>>.
ImageDataset_getitem(img_list, idx) ==
    LET n == Len(img_list)
        p == IF idx >= 0 THEN idx + 1 ELSE n + idx + 1
    IN IF idx >= n \/ idx < -n THEN None
       ELSE IF img_list[p] = "bad" THEN None
       ELSE <<p>>

\* ------------------------------------------------------------- LazyDataset

\* self.name = str(pdf): the path the document was opened from.
DocName == "doc.pdf"

\* self.init_fn(): rasterize_paper's output, one image per page.
init_fn(doc) == doc

\* The results of LazyDataset.__getitem__.
LazyRet(sample, name) == [kind |-> "ret", exc |-> "", sample |-> sample, name |-> name]
LazyRaise(e) == [kind |-> "raise", exc |-> e, sample |-> None, name |-> ""]

\* Lines 95-96: whether this call builds self.dataset anew.
Materializes(i, ds) == i = 0 \/ ds.none

\* LazyGetItemRet with the name put on index size instead of size - 1.
LazyGetItemRet_NameOnSize(i, sz, ds) ==
    IF i <= sz /\ i >= 0
    THEN LazyRet(ImageDataset_getitem(ds.img_list, i),
                 IF i = sz THEN DocName ELSE "")
    ELSE LazyRaise("IndexError")

\* Lines 97-100, with self.dataset already set: the pair returned, or the
\* IndexError raised.
LazyGetItemRet(i, sz, ds) ==
    IF i <= sz /\ i >= 0
    THEN LazyRet(ImageDataset_getitem(ds.img_list, i),
                 IF i = sz - 1 THEN DocName ELSE "")
    ELSE LazyRaise("IndexError")

LazyIdle ==
    /\ pdf = <<>>
    /\ size = 0
    /\ dataset = [none |-> TRUE, img_list |-> <<>>]
    /\ rasterized = 0
    /\ lz_log = <<>>

\* LazyDataset.__init__: size is the page count, nothing is rasterized.
LazyInit ==
    /\ pdf \in SeqUpTo({"ok", "bad"}, MaxPages) \ {<<>>}
    /\ size = Len(pdf)
    /\ dataset = [none |-> TRUE, img_list |-> <<>>]
    /\ rasterized = 0
    /\ lz_log = <<>>

\* LazyDataset.__getitem__(i).
LazyGetItem(i) ==
    /\ Len(lz_log) < MaxGets
    /\ LET m == Materializes(i, dataset)
           ds == IF m THEN [none |-> FALSE, img_list |-> init_fn(pdf)] ELSE dataset
       IN /\ dataset' = ds
          /\ rasterized' = IF m THEN rasterized + 1 ELSE rasterized
          /\ lz_log' = Append(lz_log, [i |-> i, ret |-> LazyGetItemRet(i, size, ds)])
    /\ UNCHANGED <<pdf, size>>

\* ----------------------------------------------------------- SciPDFDataset

\* A line of the record file, by what __getitem__ asks of it:
\*   json          "dict" when orjson.loads gives a dict, "bad" when it raises
\*   has_image     the dict has the key "image"
\*   exists        img_path.exists()
\*   open          Image.open(img_path): "ok", or "unidentified" for
\*                 UnidentifiedImageError, or "oserror" for any other error
\*                 (a directory, no read permission, a decompression bomb)
\*   has_markdown  the dict has the key "markdown"
Line(j, hi, ex, op, hm) ==
    [json |-> j, has_image |-> hi, exists |-> ex, open |-> op, has_markdown |-> hm]

GoodLine == Line("dict", TRUE, TRUE, "ok", TRUE)
BadJsonLine == Line("bad", FALSE, FALSE, "ok", FALSE)

LineKinds ==
    { GoodLine,
      BadJsonLine,
      Line("dict", FALSE, FALSE, "ok", TRUE),         \* no "image" key
      Line("dict", TRUE, FALSE, "ok", TRUE),          \* image file missing
      Line("dict", TRUE, TRUE, "unidentified", TRUE), \* not an image
      Line("dict", TRUE, TRUE, "oserror", TRUE),      \* cannot be read
      Line("dict", TRUE, TRUE, "ok", FALSE) }         \* no "markdown" key

\* The length of a line in bytes, its newline included.
LineBytes(l) == IF l.json = "bad" THEN 1 ELSE 2

\* The byte offset at which line k (from 1) of the file starts; k = Len + 1
\* gives the end of the file.
RECURSIVE Offset(_, _)
Offset(f, k) == IF k <= 1 THEN 0 ELSE Offset(f, k - 1) + LineBytes(f[k - 1])

\* The seek map the index builder writes: one offset per line.
BuildSeekMap(f) == [k \in 1..Len(f) |-> Offset(f, k)]

\* seek_map[index] on a Python list: -len..len-1 are taken, -1 is the last.
ListIndexOk(l, index) == index >= -Len(l) /\ index <= Len(l) - 1
ListGet(l, index) == IF index >= 0 THEN l[index + 1] ELSE l[Len(l) + index + 1]

\* dataset_file.readline() at offset pos: the line read (record is its
\* number from 0, or -1 at the end of the file; whole tells whether it was
\* read from its first byte) and the offset after it.
ReadLine(f, pos) ==
    IF pos >= Offset(f, Len(f) + 1)
    THEN [record |-> -1, whole |-> FALSE, pos |-> pos]
    ELSE LET k == CHOOSE k \in 1..Len(f) : Offset(f, k) <= pos /\ pos < Offset(f, k + 1)
         IN [record |-> k - 1, whole |-> Offset(f, k) = pos, pos |-> Offset(f, k + 1)]

\* SeekReadLine without the seek: the line is read where the handle stands.
SeekReadLine_NoSeek(f, cur, position) == ReadLine(f, cur)

\* SeekReadLine with the offset taken from where the handle stands.
SeekReadLine_Relative(f, cur, position) == ReadLine(f, cur + position)

\* Lines 179-180: dataset_file.seek(position); dataset_file.readline().
\* cur is the offset the handle was left at.
SeekReadLine(f, cur, position) == ReadLine(f, position)

\* The results of SciPDFDataset.__getitem__: a sample (record is the number
\* of the line it was built from), empty_sample, or an exception.
StoreSample(r) == [kind |-> "sample", exc |-> "", record |-> r]
EmptySample == [kind |-> "empty", exc |-> "", record |-> -1]
StoreRaise(e) == [kind |-> "raise", exc |-> e, record |-> -1]

\* Lines 181-201: the line parsed and the sample built.
ParseLine(f, rd) ==
    IF rd.record < 0 \/ ~rd.whole THEN EmptySample
    ELSE LET l == f[rd.record + 1] IN
         IF l.json = "bad" THEN EmptySample
         ELSE IF ~l.has_image THEN StoreRaise("KeyError")
         ELSE IF ~l.exists THEN EmptySample
         ELSE IF l.open = "unidentified" THEN EmptySample
         ELSE IF l.open = "oserror" THEN StoreRaise("OSError")  \* or a subclass
         ELSE IF ~l.has_markdown THEN StoreRaise("KeyError")
         ELSE StoreSample(rd.record)

StoreIdle ==
    /\ lines = <<>>
    /\ seek_map = <<>>
    /\ dataset_length = 0
    /\ dataset_file = [none |-> TRUE, fd |-> 0, pos |-> 0]
    /\ opened = 0
    /\ sd_log = <<>>

\* SciPDFDataset.__init__: the seek map loaded, the file not opened.
StoreInit ==
    /\ lines \in SeqUpTo(LineKinds, MaxLines) \ {<<>>}
    /\ seek_map = BuildSeekMap(lines)
    /\ dataset_length = Len(seek_map)
    /\ dataset_file = [none |-> TRUE, fd |-> 0, pos |-> 0]
    /\ opened = 0
    /\ sd_log = <<>>

\* OpensFile with the test dropped: the file is opened on every call.
OpensFile_Always(df) == TRUE

\* Line 177: whether this call opens the record file.
OpensFile(df) == df.none

\* SciPDFDataset.__getitem__(index).
StoreGetItem(index) ==
    /\ Len(sd_log) < MaxStoreGets
    /\ IF ~ListIndexOk(seek_map, index)
       THEN /\ sd_log' = Append(sd_log, [index |-> index, line |-> -1,
                                         ret |-> StoreRaise("IndexError")])
            /\ UNCHANGED <<dataset_file, opened>>
       ELSE LET position == ListGet(seek_map, index)
                rd == SeekReadLine(lines, dataset_file.pos, position)
                o == OpensFile(dataset_file)
            IN /\ opened' = IF o THEN opened + 1 ELSE opened
               /\ dataset_file' = [none |-> FALSE,
                                   fd |-> IF o THEN opened + 1 ELSE dataset_file.fd,
                                   pos |-> rd.pos]
               /\ sd_log' = Append(sd_log, [index |-> index, line |-> rd.record,
                                            ret |-> ParseLine(lines, rd)])
    /\ UNCHANGED <<lines, seek_map, dataset_length>>

\* ----------------------------------------------------------- CustomDataset

\* One name of the image list: img is what Image.open makes of the file the
\* name leads to ("bad" raises, "zero" is an image of zero area, "ok" an
\* image), readable whether the sentence file can be read, tokens the number
\* of tokens the sentence encodes to.
Entry(img, readable, tokens) == [img |-> img, readable |-> readable, tokens |-> tokens]

\* The sentence lengths drawn: empty, shorter than three tokens, the shortest
\* with an inner position, and one that is truncated.
TextLens == {0, 2, 3, MaxLength + 1}

EntryKinds ==
    {Entry("bad", TRUE, 2), Entry("ok", FALSE, 0), Entry("zero", TRUE, 3)}
        \cup {Entry("ok", TRUE, n) : n \in TextLens}

\* meta_list of a split other than "train" is [""]: the name joins to the
\* image directory itself, which Image.open cannot open.
DirEntry == Entry("bad", FALSE, 0)

\* A sentence, as the token ids it encodes to.
Text(n) == [k \in 1..n |-> k + 1]

\* Image.open(pic_path): the image with its size.
ImageOf(img) == [none |-> FALSE, w |-> IF img = "zero" THEN 0 ELSE 2, h |-> 2]

CdRaise(e) == [kind |-> "raise", exc |-> e, record |-> -1, sample |-> None]
CdNone == [kind |-> "none", exc |-> "", record |-> -1, sample |-> None]
CdSample(r, sm) == [kind |-> "sample", exc |-> "", record |-> r, sample |-> sm]

\* CustomDataset.__getitem__(idx); record is the place of the name in the
\* list, counted from 0.
CustomDataset_getitem(il, sp, idx) ==
    LET meta_list == IF sp = "train" THEN il ELSE <<DirEntry>>
    IN IF ~ListIndexOk(meta_list, idx) THEN CdRaise("IndexError")
       ELSE LET e == ListGet(meta_list, idx)
            IN IF e.img = "bad" THEN CdNone
               ELSE IF ~e.readable THEN CdNone
               ELSE CdSample(IF idx >= 0 THEN idx ELSE Len(meta_list) + idx,
                             [image |-> ImageOf(e.img), ground_truth |-> Text(e.tokens)])

\* CustomDataset.__len__.
CustomDataset_len(il, sp) == IF sp = "train" THEN Len(il) ELSE 0

\* ----------------------------------------------------------- NougatDataset

\* The first id random.randint may write over a token.
OpenVocabStart == 23

\* random.randint(a, b): the values it can return; none, and it raises
\* ValueError.
RandInt(a, b) == a..b

\* "NOUGAT_PERTURB" in os.environ and os.environ["NOUGAT_PERTURB"]: False, or
\* the string the variable holds.
PerturbAttr(env) ==
    IF env.set THEN [isstr |-> TRUE, s |-> env.value] ELSE [isstr |-> FALSE, s |-> ""]

\* The truth value Python gives self.perturb.
Truthy(v) == v.isstr /\ v.s # ""

\* The guard of the perturbation, with the flag left out.
Perturbs_FlagIgnored(sp, pf) == sp = "train"

\* if self.split == "train" and self.perturb
Perturbs(sp, pf) == sp = "train" /\ Truthy(pf)

\* The guard of the missing image, without the test of the area.
NoImage_NoneOnly(sample) == sample.image.none

\* sample["image"] is None or prod(sample["image"].size) == 0
NoImage(sample) == sample.image.none \/ sample.image.w * sample.image.h = 0

\* encoder.prepare_input(image, random_padding): the tensor of the image.
prepare_input(image, random_padding) == <<image.w, image.h, IF random_padding THEN 1 ELSE 0>>

\* The tokenizer called with truncation and padding to max_length: the first
\* max_length tokens of the text, then the padding id 0; the mask is 1 on
\* the tokens and 0 on the padding.
tokenizer(text, max_length) ==
    [input_ids |-> [k \in 1..max_length |-> IF k <= Len(text) THEN text[k] ELSE 0],
     attention_mask |-> [k \in 1..max_length |-> IF k <= Len(text) THEN 1 ELSE 0]]

\* attention_mask.sum()
RECURSIVE SumSeq(_)
SumSeq(q) == IF Len(q) = 0 THEN 0 ELSE q[1] + SumSeq(Tail(q))

\* The positions of the perturbation, the edges of the span included.
PerturbPositions_Edges(unpadded_length) == RandInt(0, unpadded_length - 1)

\* random.randint(1, unpadded_length - 2)
PerturbPositions(unpadded_length) == RandInt(1, unpadded_length - 2)

\* random.randint(23, len(tokenizer) - 1)
PerturbTokens(v) == RandInt(OpenVocabStart, v - 1)

\* The while loop of the perturbation from st = [ids, writes, rounds, stop],
\* over every outcome of the draws: random.random() ends it ("exit"), or a
\* round starts, and either a randint raises ValueError ("break") or
\* input_ids[pos] = token is done and the loop goes on. At most n more
\* rounds are followed. Python's position pos is place pos + 1 of ids.
RECURSIVE PerturbLoop(_, _, _, _)
PerturbLoop(st, unpadded_length, v, n) ==
    {[st EXCEPT !.stop = "exit"]}
        \cup
    IF n = 0 THEN {}
    ELSE IF PerturbPositions(unpadded_length) = {} \/ PerturbTokens(v) = {}
         THEN {[st EXCEPT !.rounds = @ + 1, !.stop = "break"]}
         ELSE UNION {PerturbLoop([st EXCEPT !.ids[pos + 1] = token,
                                            !.writes = Append(@, [pos |-> pos, token |-> token]),
                                            !.rounds = @ + 1],
                                 unpadded_length, v, n - 1) :
                        pos \in PerturbPositions(unpadded_length), token \in PerturbTokens(v)}

NgRaise(e) ==
    [kind |-> "raise", exc |-> e, input_tensor |-> None, input_ids |-> <<>>,
     attention_mask |-> <<>>, record |-> -1, prepared |-> 0, tokenized |-> 0,
     writes |-> <<>>, rounds |-> 0, stop |-> ""]

\* No call has returned yet.
NgPending == [NgRaise("") EXCEPT !.kind = "pending"]

\* __getitem__ from the test of the image to the return, on the sample of
\* record r: the triples it can return. The fields after attention_mask
\* record what was done: the record used, the calls of prepare_input and of
\* the tokenizer, the writes of the perturbation in order, its rounds and how
\* it ended ("skip": the loop was not reached).
NougatFinish(sample, r, sp, pf, v) ==
    LET noimg == NoImage(sample)
        input_tensor == IF noimg THEN None ELSE prepare_input(sample.image, sp = "train")
        tokenizer_out == tokenizer(sample.ground_truth, MaxLength)
        unpadded_length == SumSeq(tokenizer_out.attention_mask)
        start == [ids |-> tokenizer_out.input_ids, writes |-> <<>>, rounds |-> 0, stop |-> "skip"]
        outs == IF Perturbs(sp, pf) THEN PerturbLoop(start, unpadded_length, v, MaxRounds)
                ELSE {start}
    IN {[kind |-> "triple", exc |-> "", input_tensor |-> input_tensor,
         input_ids |-> o.ids, attention_mask |-> tokenizer_out.attention_mask,
         record |-> r, prepared |-> IF noimg THEN 0 ELSE 1, tokenized |-> 1,
         writes |-> o.writes, rounds |-> o.rounds, stop |-> o.stop] : o \in outs}

\* One frame of __getitem__(idx): where it leaves the call. The store raises
\* and the frame with it; the store returns None and the frame resamples
\* ("retry"), or raises ValueError when randint(0, dataset_length - 1) has
\* nothing to draw; the store returns a sample and the frame returns.
NougatFrame(il, sp, pf, v, len, idx) ==
    LET got == CustomDataset_getitem(il, sp, idx)
    IN IF got.kind = "raise" THEN {[pc |-> "done", ret |-> NgRaise(got.exc)]}
       ELSE IF got.kind = "none"
            THEN IF RandInt(0, len - 1) = {}
                 THEN {[pc |-> "done", ret |-> NgRaise("ValueError")]}
                 ELSE {[pc |-> "retry", ret |-> NgPending]}
       ELSE {[pc |-> "done", ret |-> t] : t \in NougatFinish(got.sample, got.record, sp, pf, v)}

\* The idle values of the NougatDataset variables in the other specifications.
NougatIdle ==
    /\ files = <<>>
    /\ split = "train"
    /\ environ = [set |-> FALSE, value |-> ""]
    /\ perturb = PerturbAttr(environ)
    /\ vocab = OpenVocabStart
    /\ ng_length = 0
    /\ stack = 0
    /\ ng_pc = "off"
    /\ ng_first = 0
    /\ ng_idx = 0
    /\ ng_retries = 0
    /\ ng_ret = NgPending

\* NougatDataset.__init__ over an image list, a split, an environment and a
\* tokenizer, called with some frames left on the interpreter's stack.
NougatInit ==
    /\ files \in SeqUpTo(EntryKinds, MaxRecords)
    /\ split \in {"train", "validation"}
    /\ environ \in {[set |-> FALSE, value |-> ""]}
                      \cup [set : {TRUE}, value : {"", "0", "1"}]
    /\ perturb = PerturbAttr(environ)
    /\ vocab \in {OpenVocabStart, OpenVocabStart + 2}
    /\ ng_length = CustomDataset_len(files, split)
    /\ stack \in 1..MaxStack
    /\ ng_pc = "idle"
    /\ ng_first = 0
    /\ ng_idx = 0
    /\ ng_retries = 0
    /\ ng_ret = NgPending

\* The outer call NougatDataset.__getitem__(idx), up to its return or to the
\* recursive call.
NougatGetItem(idx) ==
    /\ ng_pc = "idle"
    /\ \E o \in NougatFrame(files, split, perturb, vocab, ng_length, idx) :
          /\ ng_pc' = o.pc
          /\ ng_ret' = o.ret
    /\ ng_first' = idx
    /\ ng_idx' = idx
    /\ stack' = stack - 1
    /\ UNCHANGED <<files, split, environ, perturb, vocab, ng_length, ng_retries>>

\* return self[random.randint(0, self.dataset_length - 1)]: the recursive
\* call, which raises RecursionError when the stack has no frame left.
NougatRetry ==
    /\ ng_pc = "retry"
    /\ \E j \in RandInt(0, ng_length - 1) :
          IF stack = 0
          THEN /\ ng_pc' = "done"
               /\ ng_ret' = NgRaise("RecursionError")
               /\ UNCHANGED <<stack, ng_idx>>
          ELSE /\ \E o \in NougatFrame(files, split, perturb, vocab, ng_length, j) :
                     /\ ng_pc' = o.pc
                     /\ ng_ret' = o.ret
               /\ stack' = stack - 1
               /\ ng_idx' = j
    /\ ng_retries' = ng_retries + 1
    /\ UNCHANGED <<files, split, environ, perturb, vocab, ng_length, ng_first>>


\* ---------------------------------------------------------- specifications

CollateNext == Collate /\ UNCHANGED <<lazy_vars, store_vars, nougat_vars>>

InitCollate == CollateInit /\ LazyIdle /\ StoreIdle /\ NougatIdle

SpecCollate == InitCollate /\ [][CollateNext]_vars

LazyNext ==
    \E i \in -2..(MaxPages + 2) : LazyGetItem(i) /\ UNCHANGED <<collate_vars, store_vars, nougat_vars>>

InitLazy == CollateIdle /\ LazyInit /\ StoreIdle /\ NougatIdle

SpecLazy == InitLazy /\ [][LazyNext]_vars

StoreNext ==
    \E index \in -(MaxLines + 1)..MaxLines :
        StoreGetItem(index) /\ UNCHANGED <<collate_vars, lazy_vars, nougat_vars>>

InitStore == CollateIdle /\ LazyIdle /\ StoreInit /\ NougatIdle

SpecStore == InitStore /\ [][StoreNext]_vars

NougatNext ==
    \/ \E idx \in -(MaxRecords + 1)..MaxRecords :
          NougatGetItem(idx) /\ UNCHANGED <<collate_vars, lazy_vars, store_vars>>
    \/ NougatRetry /\ UNCHANGED <<collate_vars, lazy_vars, store_vars>>

InitNougat == CollateIdle /\ LazyIdle /\ StoreIdle /\ NougatInit

SpecNougat == InitNougat /\ [][NougatNext]_vars

\* ------------------------------------------------- claims: the collate call

\* The item at position i (from 1) has no image and carries a name.
NameBearingMissing(b, i) == b[i].image = None /\ b[i].name # ""

\* Some item before position i has an image.
ValidBefore(b, i) == \E j \in 1..(i - 1) : b[j].image # None

\* The nearest position before i whose item has an image.
LastValidBefore(b, i) ==
    CHOOSE j \in 1..(i - 1) :
        b[j].image # None /\ \A k \in (j + 1)..(i - 1) : b[k].image = None

\* The first position whose item has an image.
FirstValid(b) ==
    CHOOSE j \in 1..Len(b) : b[j].image # None /\ \A k \in 1..(j - 1) : b[k].image = None

\* How many entries of the sequence q equal n.
Count(q, n) == Cardinality({k \in 1..Len(q) : q[k] = n})

Called == cpc = "done" /\ ~batch.none

\* The spec's example [(imgA,""), (none,"doc1"), (imgB,"")].
C1_Example ==
    <<[image |-> <<1>>, name |-> ""], [image |-> None, name |-> "doc1"],
      [image |-> <<2>>, name |-> ""]>>

\* C1: for every batch and every item at position i whose image is missing
\* and whose name is non-empty, if an item with an image occurs before i, the
\* call returns a batch and the loop, on reaching i, puts the name on the last
\* slot kept so far, which is the slot of the nearest preceding item with an
\* image and keeps that image, and adds no slot; the spec's example yields
\* exactly [(imgA,"doc1"), (imgB,"")].
C1_NameAttachedToLastKept ==
    Called =>
        /\ \A i \in 1..Len(batch.items) :
            (NameBearingMissing(batch.items, i) /\ ValidBefore(batch.items, i)) =>
                LET b == batch.items
                    before == CollateLoop(b, i - 1)
                    after == CollateLoop(b, i)
                    n == Len(before.out)
                IN /\ collated.kind = "batch"
                   /\ before.exc = "" /\ after.exc = ""
                   /\ n > 0
                   /\ after.out = [before.out EXCEPT ![n] =
                          [image |-> b[LastValidBefore(b, i)].image, name |-> b[i].name]]
        /\ batch.items = C1_Example =>
               /\ collated.kind = "batch"
               /\ collated.images = <<(<<1>>), (<<2>>)>>
               /\ collated.names = <<"doc1", "">>

\* C2: for every batch holding a name-bearing item with a missing image that
\* has no item with an image before it, and holding another item with an
\* image, the output has a slot pairing that name with the zero image shaped
\* like the first available image, wherever the two items sit in the batch.
C2_PlaceholderWherever ==
    Called =>
        \A i \in 1..Len(batch.items) :
            LET b == batch.items IN
            ( /\ NameBearingMissing(b, i)
              /\ ~ValidBefore(b, i)
              /\ \E j \in 1..Len(b) : b[j].image # None ) =>
                /\ collated.kind = "batch"
                /\ \E k \in 1..Len(collated.images) :
                       /\ collated.images[k] = Mul0(b[FirstValid(b)].image)
                       /\ collated.names[k] = b[i].name

\* C3: for every batch, each non-empty name carried by an input item is on
\* exactly one slot of the output: as many output slots carry a name as input
\* items do, none dropped and none overwritten.
C3_EachNameOnOneSlot ==
    Called =>
        \A n \in Names \ {""} :
            Count([k \in 1..Len(batch.items) |-> batch.items[k].name], n)
                = IF collated.kind = "batch" THEN Count(collated.names, n) ELSE 0

\* C4: for every batch of length >= 1 in which every image is missing, the
\* call returns (None, None) and does not raise.
C4_AllMissingGivesNoneNone ==
    ( /\ Called
      /\ Len(batch.items) >= 1
      /\ \A i \in 1..Len(batch.items) : batch.items[i].image = None ) =>
        collated = NoneNone

\* ------------------------------------------------------ claims: LazyDataset

InRange(i) == 0 <= i /\ i < size

\* C5: for every in-range call get(i), after any earlier calls, the call
\* returns a pair whose second component is the document's name exactly when
\* i = size - 1 and the empty string otherwise.
C5_NameOnlyOnLastPage ==
    \A k \in 1..Len(lz_log) :
        InRange(lz_log[k].i) =>
            /\ lz_log[k].ret.kind = "ret"
            /\ (lz_log[k].i = size - 1) => lz_log[k].ret.name = DocName
            /\ (lz_log[k].i # size - 1) => lz_log[k].ret.name = ""

\* A document of several pages whose last page is fetched after another page
\* and after a fetch that raised.
C5_Witness ==
    /\ size >= 2
    /\ Len(lz_log) >= 3
    /\ lz_log[1].ret.kind = "raise"
    /\ lz_log[2].i = 0 /\ lz_log[2].ret.name = ""
    /\ lz_log[3].i = size - 1 /\ lz_log[3].ret.name = DocName

\* C6: for every sequence of in-range calls, the rasterizer has been invoked
\* exactly once, by the first call.
C6_RasterizedOnce ==
    (Len(lz_log) >= 1 /\ \A k \in 1..Len(lz_log) : InRange(lz_log[k].i)) =>
        rasterized = 1

\* C7: every call get(i) with i outside [0, size) raises IndexError.
C7_LazyOutOfRangeRaises ==
    \A k \in 1..Len(lz_log) :
        ~InRange(lz_log[k].i) =>
            lz_log[k].ret.kind = "raise" /\ lz_log[k].ret.exc = "IndexError"

\* -------------------------------------------------- claims: SciPDFDataset

StoreInRange(index) == 0 <= index /\ index < Len(seek_map)

\* C8: every call get(index) with index outside 0 <= index < length() raises
\* IndexError, so it returns no record.
C8_StoreOutOfRangeRaises ==
    \A k \in 1..Len(sd_log) :
        ~StoreInRange(sd_log[k].index) =>
            sd_log[k].ret.kind = "raise" /\ sd_log[k].ret.exc = "IndexError"

\* C9: when the line of index i does not parse as JSON, every call get(i)
\* returns empty_sample without raising, and every call get(j) on another
\* index j whose record is well-formed with an available image returns the
\* sample of record j, before or after the calls get(i).
C9_MalformedLineIsLocal ==
    \A i \in 0..(Len(lines) - 1) :
        lines[i + 1].json = "bad" =>
            \A k \in 1..Len(sd_log) :
                /\ sd_log[k].index = i => sd_log[k].ret = EmptySample
                /\ ( /\ StoreInRange(sd_log[k].index)
                     /\ sd_log[k].index # i
                     /\ lines[sd_log[k].index + 1] = GoodLine ) =>
                       sd_log[k].ret = StoreSample(sd_log[k].index)

\* The malformed line is the first of two; get(0) returned empty_sample and
\* the get(1) after it returned the sample of record 1.
C9_Witness ==
    /\ Len(lines) = 2
    /\ lines[1].json = "bad" /\ lines[2] = GoodLine
    /\ Len(sd_log) = 2
    /\ sd_log[1].index = 0 /\ sd_log[1].ret = EmptySample
    /\ sd_log[2].index = 1 /\ sd_log[2].ret = StoreSample(1)

\* C10: for every in-range index, whatever per-record failure applies, the
\* call returns empty_sample or a sample: no exception escapes.
C10_NoExceptionEscapes ==
    \A k \in 1..Len(sd_log) :
        StoreInRange(sd_log[k].index) => sd_log[k].ret.kind \in {"sample", "empty"}

\* C11: for every valid i, any two calls get(i) read the same record line,
\* the line of record i, and return equal results, whatever calls on other
\* indices (calls that returned empty_sample included) were made before or
\* between them.
C11_GetIsIdempotent ==
    \A k1, k2 \in 1..Len(sd_log) :
        (StoreInRange(sd_log[k1].index) /\ sd_log[k2].index = sd_log[k1].index) =>
            /\ sd_log[k1].line = sd_log[k1].index
            /\ sd_log[k2].line = sd_log[k1].line
            /\ sd_log[k2].ret = sd_log[k1].ret

\* get(1) returned the sample of record 1 twice, with a get(0) that returned
\* empty_sample between the two calls.
C11_Witness ==
    /\ Len(sd_log) = 3
    /\ sd_log[1].index = 1 /\ sd_log[1].ret = StoreSample(1)
    /\ sd_log[2].index = 0 /\ sd_log[2].ret = EmptySample
    /\ sd_log[3].index = 1 /\ sd_log[3].ret = StoreSample(1)

\* Some call so far passed the lookup seek_map[index] of line 176.
SomeLookupPassed == \E k \in 1..Len(sd_log) : ListIndexOk(seek_map, sd_log[k].index)

\* No step changes seek_map or what length() returns, or replaces a handle
\* once it is held.
C17_Frame ==
    /\ seek_map' = seek_map
    /\ dataset_length' = dataset_length
    /\ ~dataset_file.none => (~dataset_file'.none /\ dataset_file'.fd = dataset_file.fd)

\* C17 as stated: the record file is not opened at construction; the first
\* get opens it, and after any sequence of get calls it has been opened
\* exactly once and the same handle is held; no get changes seek_map or
\* length(), which equals len(seek_map).
C17_OpenedByFirstGet ==
    /\ [](/\ Len(sd_log) = 0 => (opened = 0 /\ dataset_file.none)
          /\ Len(sd_log) >= 1 => (opened = 1 /\ ~dataset_file.none /\ dataset_file.fd = 1)
          /\ dataset_length = Len(seek_map))
    /\ [][C17_Frame]_vars

\* C17 amended: the record file is not opened at construction; it is opened
\* by the first get whose index seek_map accepts (a get that raises
\* IndexError opens nothing), is opened exactly once over any sequence of get
\* calls, and the same handle is held from then on; no get changes seek_map
\* or length(), which equals len(seek_map).
C17_OpenedByFirstLookup ==
    /\ [](/\ ~SomeLookupPassed => (opened = 0 /\ dataset_file.none)
          /\ SomeLookupPassed => (opened = 1 /\ ~dataset_file.none /\ dataset_file.fd = 1)
          /\ dataset_length = Len(seek_map))
    /\ [][C17_Frame]_vars

\* The file was opened by the second call, after a call that raised
\* IndexError, and a third call that returned empty_sample left it open.
C17_Witness ==
    /\ Len(sd_log) = 3
    /\ sd_log[1].ret = StoreRaise("IndexError")
    /\ sd_log[2].ret.kind = "sample"
    /\ sd_log[3].ret = EmptySample
    /\ opened = 1 /\ dataset_file.fd = 1

\* C18: a get(i) that raises IndexError leaves the object as it was: it does
\* not invoke the rasterizer and does not create or replace self.dataset,
\* whether or not the object was materialized before the call.
C18_FailedGetChangesNothing ==
    [][ ( /\ Len(lz_log') = Len(lz_log) + 1
          /\ lz_log'[Len(lz_log')].ret = LazyRaise("IndexError") ) =>
            (dataset' = dataset /\ rasterized' = rasterized) ]_vars

\* C16: for every batch, the call returns the images of the input items that
\* have one, in input order, after at most one placeholder (no slots at all
\* being (None, None)); and an item with an image and no name, that is not
\* the last kept slot when a name-bearing item with a missing image is met,
\* keeps an empty name.
C16_ImagesKeptInOrder ==
    Called =>
        LET b == batch.items
            present == SelectSeq([k \in 1..Len(b) |-> b[k].image], LAMBDA t : t # None)
            valid == {k \in 1..Len(b) : b[k].image # None}
            \* the output slot of the item at position k, without a placeholder
            slot(k) == Cardinality({j \in valid : j <= k})
            ph == Len(collated.images) - Len(present)
            \* a name-bearing missing item is met while k is the last kept slot
            renamed(k) == \E i \in (k + 1)..Len(b) :
                              /\ NameBearingMissing(b, i)
                              /\ \A j \in (k + 1)..(i - 1) : b[j].image = None
        IN /\ collated.kind # "raise"
           /\ collated.kind = "none_none" => present = <<>>
           /\ collated.kind = "batch" =>
                /\ ph \in {0, 1}
                /\ SubSeq(collated.images, ph + 1, Len(collated.images)) = present
                /\ ph = 1 => collated.images[1] \notin Tensors
                /\ \A k \in valid :
                       (b[k].name = "" /\ ~renamed(k)) => collated.names[ph + slot(k)] = ""

\* ------------------------------------------------------------- C12 to C15

\* The call has returned a triple.
Returned == ng_pc = "done" /\ ng_ret.kind = "triple"

\* Record k (from 0) is one the store returns a sample for.
ValidRecord(k) == CustomDataset_getitem(files, split, k).kind = "sample"

\* The store returns the empty sample for the idx of the outer call.
FirstCorrupt == CustomDataset_getitem(files, split, ng_first).kind = "none"

\* The entry the returned triple was built from.
UsedEntry == files[ng_ret.record + 1]

\* The tokenizer's output for the record used, and its unpadded length.
RawOut == tokenizer(Text(UsedEntry.tokens), MaxLength)
RawLen == IF UsedEntry.tokens < MaxLength THEN UsedEntry.tokens ELSE MaxLength

\* C12: when the store returns the empty sample for idx and at least one
\* record of the store is valid, the call ends by returning a triple, and the
\* triple is built from a valid record.
C12_RetryReturnsValidTriple ==
    (ng_pc = "done" /\ FirstCorrupt /\ \E k \in 0..(ng_length - 1) : ValidRecord(k))
        => /\ ng_ret.kind = "triple"
           /\ ValidRecord(ng_ret.record)

\* C13: when self.perturb is false or the split is not "train", the token
\* ids returned are the tokenizer's output at every position, whatever the
\* record and the random draws.
C13_NoPerturbKeepsRawIds ==
    (Returned /\ (~Truthy(perturb) \/ split # "train"))
        => /\ ng_ret.input_ids = RawOut.input_ids
           /\ ng_ret.writes = <<>>

\* A triple returned with the variable set to the empty string, from a
\* record and a tokenizer the loop would have written to.
C13_Witness ==
    /\ Returned
    /\ split = "train"
    /\ environ = [set |-> TRUE, value |-> ""]
    /\ RawLen >= 3
    /\ vocab > OpenVocabStart
    /\ ng_ret.input_ids = RawOut.input_ids

\* C14: a sample whose image is absent or of zero area gives a triple whose
\* image tensor is None, without a call of prepare_input, with the token ids
\* and the mask of the ground truth, and nothing is raised.
C14_NoImageGivesNoneTensor ==
    LET got == CustomDataset_getitem(files, split, ng_idx)
    IN (/\ ng_pc = "done"
        /\ got.kind = "sample"
        /\ (got.sample.image.none \/ got.sample.image.w = 0 \/ got.sample.image.h = 0))
           => /\ ng_ret.kind = "triple"
              /\ ng_ret.record = got.record
              /\ ng_ret.input_tensor = None
              /\ ng_ret.prepared = 0
              /\ ng_ret.tokenized = 1
              /\ Len(ng_ret.input_ids) = MaxLength
              /\ \A k \in 1..MaxLength :
                    \/ ng_ret.input_ids[k] = RawOut.input_ids[k]
                    \/ \E w \in 1..Len(ng_ret.writes) : ng_ret.writes[w].pos = k - 1
              /\ ng_ret.attention_mask = RawOut.attention_mask

\* A call that resampled a record whose image has zero area has returned its
\* triple.
C14_Witness ==
    /\ Returned
    /\ ng_retries > 0
    /\ UsedEntry.img = "zero"
    /\ ng_ret.input_tensor = None
    /\ ng_ret.input_ids = RawOut.input_ids

\* C15: in the perturbation loop every position written is in 1..L-2 and
\* every token written in 23..V-1; position 0, position L-1, the padding and
\* the attention mask are as the tokenizer gave them; when L < 3 nothing is
\* written and the loop ends in its first round.
C15_PerturbationStaysInside ==
    (Returned /\ Perturbs(split, perturb))
        => /\ \A w \in 1..Len(ng_ret.writes) :
                 /\ 1 <= ng_ret.writes[w].pos
                 /\ ng_ret.writes[w].pos <= RawLen - 2
                 /\ OpenVocabStart <= ng_ret.writes[w].token
                 /\ ng_ret.writes[w].token <= vocab - 1
           /\ \A k \in 1..MaxLength :
                 (k = 1 \/ k >= RawLen) => ng_ret.input_ids[k] = RawOut.input_ids[k]
           /\ \A k \in 1..MaxLength :
                 ng_ret.input_ids[k] # RawOut.input_ids[k]
                     => \E w \in 1..Len(ng_ret.writes) : ng_ret.writes[w].pos = k - 1
           /\ ng_ret.attention_mask = RawOut.attention_mask
           /\ RawLen < 3 => (ng_ret.writes = <<>> /\ ng_ret.rounds <= 1
                             /\ (ng_ret.rounds = 1 => ng_ret.stop = "break"))

\* A padded sequence with an inner position, written in every round followed.
C15_Witness ==
    /\ Returned
    /\ Perturbs(split, perturb)
    /\ RawLen < MaxLength
    /\ Len(ng_ret.writes) = MaxRounds
    /\ ng_ret.input_ids # RawOut.input_ids

====
